---- MODULE Spec2Model ----
(***************************************************************************)
(* The Dynamic Hash Table Analyzer (src/app.py): a Streamlit script that   *)
(* reads results_data.csv, reshapes it from wide to long form, filters it  *)
(* by five sidebar controls and hands the filtered rows to a line chart.   *)
(* One process serves many script runs; load_data is memoised by           *)
(* st.cache_data.                                                          *)
(*                                                                         *)
(* Numbers: a load factor is held in hundredths (0.05 is 5, 1.0 is 100);   *)
(* metric values are integers; NaN is pandas' missing marker, which        *)
(* compares False with everything and is skipped by max().                 *)
(***************************************************************************)
EXTENDS Integers, Sequences, FiniteSets

VARIABLES
    file,            \* results_data.csv on disk: [readable, rows]
    cache,           \* the st.cache_data entry of load_data: [hit, value]
    df_raw,          \* the wide table read_csv returned at the last cache miss
    reads,           \* successful reads of results_data.csv in this process
    first_df,        \* the table returned by the first successful load_data
    pc,              \* position of the current script run
    steps,           \* pipeline steps executed so far in the current run
    error,           \* the message st.error displayed in the current run
    df,              \* module-level df (line 75)
    controls,        \* the five sidebar controls (lines 83-123)
    df_filtered,     \* line 126
    max_key_index,   \* line 155
    key_index,       \* lines 157-166
    fig              \* the figure handed to st.plotly_chart: [shown, line, star]

vars == <<file, cache, df_raw, reads, first_df, pc, steps, error, df, controls,
          df_filtered, max_key_index, key_index, fig>>

----------------------------------------------------------------------------
(* Bounds of the model *)

\* Largest number of data rows of results_data.csv.
MaxRows == 2

\* Largest Key_Index found in results_data.csv.
MaxKeyIndex == 10

\* Largest number of techniques the user removes from the default selection.
MaxRemoved == 1

----------------------------------------------------------------------------
(* Configuration (lines 16-34) and the widgets' fixed parameters *)

\* pandas' missing marker for an empty cell (numpy.nan)
NaN == -1

PROBE_COLS == <<"Chaining_Probes", "Linear_Probing_Probes",
                "Quadratic_Probing_Probes", "Double_Hashing_Probes">>

TIME_COLS == <<"Chaining_Time_ms", "Linear_Probing_Time_ms",
               "Quadratic_Probing_Time_ms", "Double_Hashing_Time_ms">>

TECHNIQUE_MAP ==
    [c \in {"Chaining_Probes", "Linear_Probing_Probes",
            "Quadratic_Probing_Probes", "Double_Hashing_Probes",
            "Chaining_Time_ms", "Linear_Probing_Time_ms",
            "Quadratic_Probing_Time_ms", "Double_Hashing_Time_ms"} |->
        CASE c \in {"Chaining_Probes", "Chaining_Time_ms"} -> "Separate Chaining"
          [] c \in {"Linear_Probing_Probes", "Linear_Probing_Time_ms"} -> "Linear Probing"
          [] c \in {"Quadratic_Probing_Probes", "Quadratic_Probing_Time_ms"} -> "Quadratic Probing"
          [] OTHER -> "Double Hashing"]

\* The label assigned to the melted probe columns (line 57).
PROBES_LABEL == "Total Probes"

\* A timing label that has drifted from the metric radio's option.
TIME_LABEL_drifted == "Insertion Time"

\* The label assigned to the melted timing columns (line 65).
TIME_LABEL == "Insertion Time (ms)"

\* The options of the metric radio (line 95).
METRIC_OPTIONS == <<"Total Probes", "Insertion Time (ms)">>

\* The scale radio's options reduced by line 89.
SCALE_FILTERS == {"Macro", "Micro"}

\* The max-load-factor slider (lines 116-123), in hundredths.
SliderMin == 10
SliderMax == 100
SliderStep == 5
SliderValues == {v \in SliderMin..SliderMax : (v - SliderMin) % SliderStep = 0}

\* The key-index slider's default switches at this maximum (line 161).
KeyDefaultLimit == 10
KeyDefaultValue == 6

----------------------------------------------------------------------------
(* The contents results_data.csv may have *)

\* One data line of the CSV: probe counts p..p+3, timings t..t+3 with the
\* chaining timing cell as given (NaN: an empty cell).
WideRow(k, lf, sc, d, p, ct, t) ==
    [Key_Index |-> k, Load_Factor |-> lf, Scale |-> sc, Distribution |-> d,
     Chaining_Probes |-> p, Linear_Probing_Probes |-> p + 1,
     Quadratic_Probing_Probes |-> p + 2, Double_Hashing_Probes |-> p + 3,
     Chaining_Time_ms |-> ct, Linear_Probing_Time_ms |-> t,
     Quadratic_Probing_Time_ms |-> t + 1, Double_Hashing_Time_ms |-> t + 2]

\* The data lines a simulation run writes, in file order: Key_Index and
\* Load_Factor grow down the file.
SampleRows ==
    << WideRow(1, 12, "Macro", "Uniform", 1, 0, 0),
       WideRow(3, 50, "Micro", "Uniform", 2, NaN, 3),
       WideRow(6, 75, "Macro", "Skewed", 4, NaN, 0),
       WideRow(MaxKeyIndex, 100, "Macro", "Skewed", 5, 4, 7) >>

\* The rows of SampleRows at the positions in S, in file order.
RECURSIVE Pick(_, _)
Pick(S, n) ==
    IF n = 0 THEN <<>>
    ELSE IF n \in S THEN Append(Pick(S, n - 1), SampleRows[n])
         ELSE Pick(S, n - 1)

WideTables ==
    {Pick(S, Len(SampleRows)) :
        S \in {T \in SUBSET DOMAIN SampleRows : Cardinality(T) <= MaxRows}}

FileStates ==
    {[readable |-> TRUE, rows |-> t] : t \in WideTables}
    \cup {[readable |-> FALSE, rows |-> <<>>]}

----------------------------------------------------------------------------
(* pandas operations used by load_data *)

\* DataFrame.melt over value_vars, one output row per (column, input row),
\* column-major, with .assign(Metric_Type=label).
Melt(wide, value_vars, label) ==
    [k \in 1..(Len(wide) * Len(value_vars)) |->
        LET c == value_vars[((k - 1) \div Len(wide)) + 1]
            r == wide[((k - 1) % Len(wide)) + 1]
        IN  [Scale |-> r.Scale, Distribution |-> r.Distribution,
             Load_Factor |-> r.Load_Factor, Key_Index |-> r.Key_Index,
             Technique_Raw |-> c, Metric_Value |-> r[c],
             Metric_Type |-> label]]

\* pd.concat(..., ignore_index=True): a fresh 0-based index.
ConcatIgnoreIndex(a, b) ==
    [k \in 1..(Len(a) + Len(b)) |->
        LET r == IF k <= Len(a) THEN a[k] ELSE b[k - Len(a)]
        IN  [index |-> k - 1, Scale |-> r.Scale, Distribution |-> r.Distribution,
             Load_Factor |-> r.Load_Factor, Key_Index |-> r.Key_Index,
             Technique_Raw |-> r.Technique_Raw, Metric_Value |-> r.Metric_Value,
             Metric_Type |-> r.Metric_Type]]

\* df_long['Technique'] = df_long['Technique_Raw'].map(TECHNIQUE_MAP)
AddTechnique(long) ==
    [k \in 1..Len(long) |->
        LET r == long[k]
        IN  [index |-> r.index, Scale |-> r.Scale, Distribution |-> r.Distribution,
             Load_Factor |-> r.Load_Factor, Key_Index |-> r.Key_Index,
             Technique_Raw |-> r.Technique_Raw, Metric_Value |-> r.Metric_Value,
             Metric_Type |-> r.Metric_Type,
             Technique |-> TECHNIQUE_MAP[r.Technique_Raw]]]

df_probes(wide) == Melt(wide, PROBE_COLS, PROBES_LABEL)

\* The timing melt copied from the probe melt with value_vars left unchanged.
df_time_probe_cols(wide) == Melt(wide, PROBE_COLS, TIME_LABEL)

df_time(wide) == Melt(wide, TIME_COLS, TIME_LABEL)

\* The reshape of load_data (lines 51-73).
df_long(wide) == AddTechnique(ConcatIgnoreIndex(df_probes(wide), df_time(wide)))

\* Series.unique(): the distinct values in order of first appearance.
RECURSIVE Unique(_, _)
Unique(long, col) ==
    IF long = <<>> THEN <<>>
    ELSE LET front == Unique(SubSeq(long, 1, Len(long) - 1), col)
             v == long[Len(long)][col]
         IN  IF \E i \in DOMAIN front : front[i] = v THEN front
             ELSE Append(front, v)

Range(s) == {s[i] : i \in DOMAIN s}

----------------------------------------------------------------------------
(* Initial state: a fresh process, nothing cached, no run started *)

NoTable == <<>>
NoControls == [metric |-> "", scale |-> "", distributions |-> {},
               techniques |-> {}, max_load_factor |-> 0]
NoFig == [shown |-> FALSE, line |-> <<>>, star |-> <<>>]

Init ==
    /\ file \in FileStates
    /\ cache = [hit |-> FALSE, value |-> NoTable]
    /\ df_raw = NoTable
    /\ reads = 0
    /\ first_df = NoTable
    /\ pc = "start"
    /\ steps = <<>>
    /\ error = ""
    /\ df = NoTable
    /\ controls = NoControls
    /\ df_filtered = NoTable
    /\ max_key_index = 0
    /\ key_index = 0
    /\ fig = NoFig

----------------------------------------------------------------------------
(* load_data under @st.cache_data (lines 36-75) *)

\* load_data without its decorator: nothing is stored.
CacheStoreNothing(table) == [hit |-> FALSE, value |-> NoTable]

\* @st.cache_data: a returned table is stored for the rest of the process.
CacheStore(table) == [hit |-> TRUE, value |-> table]

\* The except branch without st.stop(): the error is shown and the run goes
\* on with an empty table.
ContinueOnReadError ==
    /\ error' = "Error loading CSV data"
    /\ pc' = "sidebar"
    /\ steps' = Append(steps, "read_csv:failed")
    /\ df' = NoTable
    /\ UNCHANGED <<cache, df_raw, reads, first_df>>

\* The except branch (lines 47-49): st.error, then st.stop() ends the run.
StopOnReadError ==
    /\ error' = "Error loading CSV data"
    /\ pc' = "stopped"
    /\ steps' = Append(steps, "read_csv:failed")
    /\ UNCHANGED <<cache, df_raw, reads, first_df, df>>

\* Lines 41-46 succeeded: reshape, return, and the decorator stores the result.
ReadAndReshape ==
    /\ df_raw' = file.rows
    /\ df' = df_long(file.rows)
    /\ cache' = CacheStore(df_long(file.rows))
    /\ reads' = reads + 1
    /\ first_df' = IF reads = 0 THEN df_long(file.rows) ELSE first_df
    /\ steps' = steps \o <<"read_csv", "reshape">>
    /\ pc' = "sidebar"
    /\ UNCHANGED error

\* Line 75: df = load_data().
LoadData ==
    /\ pc = "start"
    /\ IF cache.hit
       THEN /\ df' = cache.value
            /\ steps' = Append(steps, "cache_hit")
            /\ pc' = "sidebar"
            /\ UNCHANGED <<cache, df_raw, reads, first_df, error>>
       ELSE IF file.readable THEN ReadAndReshape ELSE StopOnReadError
    /\ UNCHANGED <<file, controls, df_filtered, max_key_index, key_index, fig>>

----------------------------------------------------------------------------
(* The sidebar (lines 80-123) *)

available_distributions == Unique(df, "Distribution")

available_techniques == Unique(df, "Technique")

\* A multiselect starts with every option selected; the user removes a few
\* options or clears the selection.
Selections(options) ==
    {S \in SUBSET options : S = {} \/ Cardinality(options \ S) <= MaxRemoved}

Sidebar ==
    /\ pc = "sidebar"
    /\ \E sc \in SCALE_FILTERS, m \in Range(METRIC_OPTIONS),
          ds \in SUBSET Range(available_distributions),
          ts \in Selections(Range(available_techniques)),
          lf \in SliderValues :
            controls' = [metric |-> m, scale |-> sc, distributions |-> ds,
                         techniques |-> ts, max_load_factor |-> lf]
    /\ steps' = Append(steps, "sidebar")
    /\ pc' = "filter"
    /\ UNCHANGED <<file, cache, df_raw, reads, first_df, error, df,
                   df_filtered, max_key_index, key_index, fig>>

----------------------------------------------------------------------------
(* The filter (lines 125-132): five boolean masks, and-ed, then df[mask] *)

MaskEq(long, col, v) == [k \in DOMAIN long |-> long[k][col] = v]

MaskIsin(long, col, S) == [k \in DOMAIN long |-> long[k][col] \in S]

\* The load-factor bound taken as exclusive.
MaskLt(long, col, m) ==
    [k \in DOMAIN long |-> long[k][col] # NaN /\ long[k][col] < m]

\* The load-factor comparison turned around.
MaskGe(long, col, m) ==
    [k \in DOMAIN long |-> long[k][col] # NaN /\ long[k][col] >= m]

\* A comparison with NaN is False.
MaskLe(long, col, m) ==
    [k \in DOMAIN long |-> long[k][col] # NaN /\ long[k][col] <= m]

MaskAnd(a, b) == [k \in DOMAIN a |-> a[k] /\ b[k]]

\* A mask applied one position late: row k is kept when entry k-1 is True.
RECURSIVE RowsAfterTrue(_, _, _)
RowsAfterTrue(long, mask, n) ==
    IF n <= 1 THEN <<>>
    ELSE IF mask[n - 1] THEN Append(RowsAfterTrue(long, mask, n - 1), long[n])
         ELSE RowsAfterTrue(long, mask, n - 1)

BoolIndexShifted(long, mask) == RowsAfterTrue(long, mask, Len(long))

\* df[mask]: the rows whose mask entry is True, in order, index labels kept.
RECURSIVE BoolIndex(_, _)
BoolIndex(long, mask) ==
    IF long = <<>> THEN <<>>
    ELSE LET n == Len(long)
             front == BoolIndex(SubSeq(long, 1, n - 1), SubSeq(mask, 1, n - 1))
         IN  IF mask[n] THEN Append(front, long[n]) ELSE front

FilterMask(long, c) ==
    MaskAnd(MaskAnd(MaskAnd(MaskAnd(
        MaskEq(long, "Metric_Type", c.metric),
        MaskEq(long, "Scale", c.scale)),
        MaskIsin(long, "Distribution", c.distributions)),
        MaskIsin(long, "Technique", c.techniques)),
        MaskLe(long, "Load_Factor", c.max_load_factor))

Filtered(long, c) == BoolIndex(long, FilterMask(long, c))

ApplyFilters ==
    /\ pc = "filter"
    /\ df_filtered' = Filtered(df, controls)
    /\ steps' = Append(steps, "filter")
    /\ pc' = "layout"
    /\ UNCHANGED <<file, cache, df_raw, reads, first_df, error, df,
                   controls, max_key_index, key_index, fig>>

----------------------------------------------------------------------------
(* The key-index selector (lines 154-166) *)

\* Series.max(): NaN entries are skipped, and the maximum of nothing is NaN.
SeriesMax(long, col) ==
    LET vals == {long[k][col] : k \in DOMAIN long} \ {NaN}
    IN  IF vals = {} THEN NaN
        ELSE CHOOSE v \in vals : \A w \in vals : w <= v

\* The default with its comparison turned around.
KeyDefaultFlipped(mx) == IF mx > KeyDefaultLimit THEN mx ELSE KeyDefaultValue

\* The slider's default value (line 161).
KeyDefault(mx) == IF mx < KeyDefaultLimit THEN mx ELSE KeyDefaultValue

\* int(NaN) raises ValueError; st.slider raises when its default lies
\* outside [min_value, max_value]; otherwise the slider holds its default or
\* a value the user dragged it to.
KeyIndexSelector ==
    /\ pc = "layout"
    /\ LET mx == SeriesMax(df_filtered, "Key_Index")
       IN  IF mx = NaN
           THEN /\ pc' = "raised"
                /\ error' = "ValueError"
                /\ UNCHANGED <<max_key_index, key_index>>
           ELSE /\ max_key_index' = mx
                /\ IF mx > 1
                   THEN IF KeyDefault(mx) \in 1..mx
                        THEN /\ key_index' \in 1..mx
                             /\ pc' = "plot"
                             /\ UNCHANGED error
                        ELSE /\ pc' = "raised"
                             /\ error' = "StreamlitAPIException"
                             /\ UNCHANGED key_index
                   ELSE /\ key_index' = 1
                        /\ pc' = "plot"
                        /\ UNCHANGED error
    /\ steps' = Append(steps, "key_index")
    /\ UNCHANGED <<file, cache, df_raw, reads, first_df, df, controls,
                   df_filtered, fig>>

----------------------------------------------------------------------------
(* The chart (lines 168-200) *)

\* Lines 189-190: the rows the star markers are drawn for.
df_key(long, key) ==
    IF key \in {long[k].Key_Index : k \in DOMAIN long}
    THEN BoolIndex(long, [k \in DOMAIN long |-> long[k].Key_Index = key])
    ELSE <<>>

PlotChart ==
    /\ pc = "plot"
    /\ fig' = [shown |-> TRUE, line |-> df_filtered,
               star |-> df_key(df_filtered, key_index)]
    /\ steps' = Append(steps, "chart")
    /\ pc' = "done"
    /\ UNCHANGED <<file, cache, df_raw, reads, first_df, error, df,
                   controls, df_filtered, max_key_index, key_index>>

----------------------------------------------------------------------------
(* The process around the script *)

\* A widget interaction or a page reload starts the script again from line 1;
\* the globals of the previous run are gone, the cache is kept.
Rerun ==
    /\ pc \in {"done", "stopped", "raised"}
    /\ pc' = "start"
    /\ steps' = <<>>
    /\ error' = ""
    /\ df' = NoTable
    /\ controls' = NoControls
    /\ df_filtered' = NoTable
    /\ max_key_index' = 0
    /\ key_index' = 0
    /\ fig' = NoFig
    /\ UNCHANGED <<file, cache, df_raw, reads, first_df>>

\* The simulation appends its next data line to results_data.csv.
AppendLine ==
    /\ pc \in {"done", "stopped", "raised"}
    /\ file.readable
    /\ \E f \in FileStates :
         /\ f.readable
         /\ Len(f.rows) = Len(file.rows) + 1
         /\ SubSeq(f.rows, 1, Len(file.rows)) = file.rows
         /\ file' = f
    /\ UNCHANGED <<cache, df_raw, reads, first_df, pc, steps, error, df,
                   controls, df_filtered, max_key_index, key_index, fig>>

\* results_data.csv is removed.
RemoveFile ==
    /\ pc \in {"done", "stopped", "raised"}
    /\ file.readable
    /\ file' = [readable |-> FALSE, rows |-> <<>>]
    /\ UNCHANGED <<cache, df_raw, reads, first_df, pc, steps, error, df,
                   controls, df_filtered, max_key_index, key_index, fig>>

Next ==
    \/ LoadData
    \/ Sidebar
    \/ ApplyFilters
    \/ KeyIndexSelector
    \/ PlotChart
    \/ Rerun

NextWithFile ==
    \/ Next
    \/ AppendLine
    \/ RemoveFile

\* One process, the file as it was when the process started.
Spec == Init /\ [][Next]_vars

\* One process, the file rewritten under it.
SpecFile == Init /\ [][NextWithFile]_vars

----------------------------------------------------------------------------
(* Properties *)

\* Positions of a run at which load_data has returned a table.
PastLoad == {"sidebar", "filter", "layout", "plot", "done", "raised"}

\* Positions of a run at which line 126 has been executed; "layout" is the
\* position right after it, "sidebar" the one right after load_data.
PastFilter == {"layout", "plot", "done", "raised"}

UNPIVOTED == Range(PROBE_COLS) \cup Range(TIME_COLS)

\* The five conditions of the filter on one long row under controls c.
Keeps(r, c) ==
    /\ r.Metric_Type = c.metric
    /\ r.Scale = c.scale
    /\ r.Distribution \in c.distributions
    /\ r.Technique \in c.techniques
    /\ r.Load_Factor # NaN
    /\ r.Load_Factor <= c.max_load_factor

\* C1: df_filtered is exactly the subsequence of the rows of df that satisfy
\* all five conditions: every matching row is present, every present row is
\* a matching row of df with all its fields unchanged, and the rows are in
\* their original order (index labels strictly increasing), none twice.
C1_FilterIsExactSubsequence ==
    pc = "layout" =>
        /\ \A k \in DOMAIN df :
             Keeps(df[k], controls) =>
                \E j \in DOMAIN df_filtered : df_filtered[j] = df[k]
        /\ \A j \in DOMAIN df_filtered :
             \E k \in DOMAIN df :
                df[k] = df_filtered[j] /\ Keeps(df[k], controls)
        /\ \A i, j \in DOMAIN df_filtered :
             i < j => df_filtered[i].index < df_filtered[j].index

\* A run whose filter kept a row exactly at the load-factor bound, dropped a
\* row only for lying above it, and kept at least two rows.
C1_Witness ==
    /\ pc = "layout"
    /\ Len(df_filtered) >= 2
    /\ \E j \in DOMAIN df_filtered :
         df_filtered[j].Load_Factor = controls.max_load_factor
    /\ \E k \in DOMAIN df :
         /\ df[k].Load_Factor > controls.max_load_factor
         /\ Keeps(df[k], [controls EXCEPT !.max_load_factor = SliderMax])

\* The identifying fields, raw column and value of a long row.
Observation(r) ==
    <<r.Scale, r.Distribution, r.Load_Factor, r.Key_Index,
      r.Technique_Raw, r.Metric_Value>>

\* The observation the wide row w holds in column c.
Cell(w, c) == <<w.Scale, w.Distribution, w.Load_Factor, w.Key_Index, c, w[c]>>

\* C2: the table load_data returns has n * 8 rows for a wide table of n
\* rows, and for every (input row, unpivoted column) pair it holds that
\* pair's observation (the row's Scale, Distribution, Load_Factor and
\* Key_Index and the value of that column) exactly as many times as the wide
\* table does: no pair dropped, none duplicated.
C2_ReshapeOneRowPerPair ==
    pc = "sidebar" =>
        /\ Len(df) = Len(df_raw) * 8
        /\ \A i \in DOMAIN df_raw : \A c \in UNPIVOTED :
             Cardinality({k \in DOMAIN df : Observation(df[k]) = Cell(df_raw[i], c)})
               = Cardinality({j \in DOMAIN df_raw : Cell(df_raw[j], c) = Cell(df_raw[i], c)})
        /\ \A k \in DOMAIN df :
             \E i \in DOMAIN df_raw : \E c \in UNPIVOTED :
                Observation(df[k]) = Cell(df_raw[i], c)

\* A load of a file of at least two data lines, one with an empty cell.
C2_Witness ==
    /\ pc = "sidebar"
    /\ Len(df_raw) >= 2
    /\ Len(df) = 16
    /\ \E i \in DOMAIN df_raw : df_raw[i].Chaining_Time_ms = NaN

\* C3: a run over a table with rows whose filter matched none of them does
\* not raise.
C3_EmptySelectionDoesNotRaise ==
    (pc \in PastFilter /\ df # <<>> /\ df_filtered = <<>>) => pc # "raised"

\* C4: a run whose read of results_data.csv failed shows the error and stops
\* inside load_data with no other pipeline step executed, and a run that
\* shows a chart has executed every step, in order, on a fully loaded table.
C4_ReadFailureHaltsTheRun ==
    /\ pc = "stopped" =>
         /\ error = "Error loading CSV data"
         /\ steps = <<"read_csv:failed">>
         /\ df = NoTable /\ df_filtered = NoTable /\ ~fig.shown
    /\ (\E i \in DOMAIN steps : steps[i] = "read_csv:failed") => pc = "stopped"
    /\ fig.shown =>
         /\ steps \in {<<"read_csv", "reshape", "sidebar", "filter", "key_index", "chart">>,
                       <<"cache_hit", "sidebar", "filter", "key_index", "chart">>}
         /\ Len(df) = Len(df_raw) * 8
         /\ error = ""

\* A run stopped by a failed read.
C4_Witness ==
    /\ pc = "stopped"
    /\ ~file.readable
    /\ error = "Error loading CSV data"

\* C5: an input row with an absent timing value has no 'Insertion Time (ms)'
\* row for that technique in the long table.
C5_NoRowForAbsentTiming ==
    pc \in PastLoad =>
        \A i \in DOMAIN df_raw : \A c \in Range(TIME_COLS) :
            df_raw[i][c] = NaN =>
                ~ \E k \in DOMAIN df :
                    /\ df[k].Metric_Type = "Insertion Time (ms)"
                    /\ df[k].Technique = TECHNIQUE_MAP[c]
                    /\ df[k].Scale = df_raw[i].Scale
                    /\ df[k].Distribution = df_raw[i].Distribution
                    /\ df[k].Load_Factor = df_raw[i].Load_Factor
                    /\ df[k].Key_Index = df_raw[i].Key_Index

\* C6: results_data.csv is read successfully at most once in a process, and
\* every run that gets a table from load_data gets the table the first
\* successful call returned, whatever has happened to the file since.
C6_LoadedOncePerProcess ==
    /\ reads <= 1
    /\ pc \in PastLoad => (reads = 1 /\ df = first_df)

\* A later run served from the cache after the file has changed.
C6_Witness ==
    /\ pc = "done"
    /\ steps[1] = "cache_hit"
    /\ df # <<>>
    /\ df = first_df
    /\ file # [readable |-> TRUE, rows |-> df_raw]

\* C7: filtering the filtered table again with the same controls gives the
\* same rows in the same order.
C7_FilterIdempotent ==
    pc = "layout" => Filtered(df_filtered, controls) = df_filtered

\* A filter that kept some rows and dropped others.
C7_Witness ==
    /\ pc = "layout"
    /\ df_filtered # <<>>
    /\ Len(df_filtered) < Len(df)
    /\ \E k \in DOMAIN df : k < Len(df) /\ df[k] \in Range(df_filtered)
                            /\ df[k + 1] \notin Range(df_filtered)

\* C8: with the other four controls fixed, every row kept under the chosen
\* max load factor is kept under every larger one.
C8_FilterMonotoneInLoadFactor ==
    pc = "layout" =>
        \A m2 \in SliderValues :
            m2 > controls.max_load_factor =>
                Range(df_filtered)
                  \subseteq Range(Filtered(df, [controls EXCEPT !.max_load_factor = m2]))

\* A filter that keeps rows and would keep strictly more under a larger bound.
C8_Witness ==
    /\ pc = "layout"
    /\ df_filtered # <<>>
    /\ \E m2 \in SliderValues :
         /\ m2 > controls.max_load_factor
         /\ Len(Filtered(df, [controls EXCEPT !.max_load_factor = m2]))
              > Len(df_filtered)

\* C9 as stated: techniques are Chaining, Linear Probing, Quadratic Probing
\* or Double Hashing, metric types are Average/Total Probes or Insertion
\* Time, and the selected metric type occurs in the long table.
C9_LabelsAsStated ==
    /\ pc \in PastLoad =>
         \A k \in DOMAIN df :
            /\ df[k].Technique \in {"Chaining", "Linear Probing",
                                    "Quadratic Probing", "Double Hashing"}
            /\ df[k].Metric_Type \in {"Average/Total Probes", "Average Probes",
                                      "Total Probes", "Insertion Time"}
    /\ pc \in PastFilter =>
         \E k \in DOMAIN df : df[k].Metric_Type = controls.metric

\* C9 amended: techniques are Separate Chaining, Linear Probing, Quadratic
\* Probing or Double Hashing, metric types are Total Probes or Insertion
\* Time (ms), the selected metric type is one of these two labels, and it
\* occurs in the long table whenever the table has a row.
C9_LabelsOfTheCode ==
    /\ pc \in PastLoad =>
         \A k \in DOMAIN df :
            /\ df[k].Technique \in {"Separate Chaining", "Linear Probing",
                                    "Quadratic Probing", "Double Hashing"}
            /\ df[k].Metric_Type \in {"Total Probes", "Insertion Time (ms)"}
    /\ pc \in PastFilter =>
         /\ controls.metric \in {"Total Probes", "Insertion Time (ms)"}
         /\ df # <<>> => \E k \in DOMAIN df : df[k].Metric_Type = controls.metric

\* A charted run on the timing metric over a table with chaining rows.
C9_Witness ==
    /\ pc = "done"
    /\ controls.metric = "Insertion Time (ms)"
    /\ \E k \in DOMAIN df_filtered :
         /\ df_filtered[k].Technique = "Separate Chaining"
         /\ df_filtered[k].Metric_Type = "Insertion Time (ms)"

\* C10: for a non-empty filtered table the key selector does not raise,
\* max_key_index is the largest Key_Index of the filtered rows, the slider's
\* default (max_key_index below 10, else 6) lies in [1, max_key_index], the
\* key index lies in [1, max_key_index] and is 1 when max_key_index <= 1,
\* and the star markers are exactly the filtered rows with that Key_Index.
C10_KeyIndexInRange ==
    /\ (pc = "raised" /\ "key_index" \in Range(steps)) => df_filtered = <<>>
    /\ pc \in {"plot", "done"} =>
         /\ df_filtered # <<>>
         /\ \E k \in DOMAIN df_filtered : df_filtered[k].Key_Index = max_key_index
         /\ \A k \in DOMAIN df_filtered : df_filtered[k].Key_Index <= max_key_index
         /\ max_key_index > 1 =>
              /\ KeyDefault(max_key_index)
                   = (IF max_key_index < 10 THEN max_key_index ELSE 6)
              /\ KeyDefault(max_key_index) \in 1..max_key_index
         /\ key_index \in 1..max_key_index
         /\ max_key_index <= 1 => key_index = 1
    /\ pc = "done" =>
         /\ \A j \in DOMAIN fig.star :
              /\ fig.star[j].Key_Index = key_index
              /\ fig.star[j] \in Range(df_filtered)
         /\ \A k \in DOMAIN df_filtered :
              df_filtered[k].Key_Index = key_index =>
                 df_filtered[k] \in Range(fig.star)

\* A chart over rows up to Key_Index 10 or more with the key index at the
\* slider's default 6 and star markers drawn.
C10_Witness ==
    /\ pc = "done"
    /\ max_key_index >= 10
    /\ key_index = 6
    /\ fig.star # <<>>
    /\ Len(fig.star) < Len(df_filtered)

====
